---- MODULE Spec2Model ----
(***************************************************************************)
(* A model of the protest dashboard of src/app.py: the loaded dataset df,  *)
(* filter_data, the label rule best_location, aggregate_events_for_map,    *)
(* the memoizing result cache and the request handlers that call them.     *)
(*                                                                         *)
(* Text is a sequence of one-character strings.  A nullable value is       *)
(* None (NaN, NaT or Python None) or Some(v).                              *)
(***************************************************************************)
EXTENDS Integers, Sequences, FiniteSets, TLC

VARIABLES
    csv,    \* the rows of the source file as read_csv parsed them
    df,     \* the module-level dataset
    pc,     \* where the request being served stands
    req,    \* the request being served
    ret,    \* what filter_data returned to the request
    out,    \* what update_all made of it for the map
    work,   \* the requests being served at once, one per worker thread
    cache,  \* the entries of the result cache, per memoized function
    now,    \* the time in seconds since the process started
    view    \* what update_all returned to the page

vars == <<csv, df, pc, req, ret, out, work, cache, now, view>>

(* ------------------------------ bounds -------------------------------- *)

\* Calendar days are 1..MaxDate.
MaxDate == 3
\* A dataset has 1..MaxRows rows.
MaxRows == 2
\* Longest organization search text typed into the search box.
MaxSearchLen == 3
\* Longest location text of a record.
MaxLocLen == 3
\* Longest organizations text of a record.
MaxOrgLen == 2
\* The clock runs from 0 to MaxClock seconds.
MaxClock == 130
\* The number of rows of the source file the cache is tried on.
CacheRows == 62

(* --------------------------- nullable values --------------------------- *)

None == <<>>
Some(v) == <<v>>
IsNull(x) == x = None
NotNull(x) == x # None

(* ------------------------------- text ---------------------------------- *)

\* All texts over the alphabet of length 0..n.
RECURSIVE TextsUpTo(_, _)
TextsUpTo(alphabet, n) ==
    IF n = 0 THEN {<<>>}
    ELSE LET shorter == TextsUpTo(alphabet, n - 1)
         IN  shorter \cup {Append(t, c) : t \in shorter, c \in alphabet}

\* str.lower() on one character.
LowerChar(c) ==
    CASE c = "A" -> "a"
      [] c = "B" -> "b"
      [] c = "N" -> "n"
      [] c = "X" -> "x"
      [] OTHER   -> c

\* str.lower()
Lower(s) == [i \in 1..Len(s) |-> LowerChar(s[i])]

IsSpace(c) == c = " "

\* str.strip(): leading and trailing whitespace removed.
RECURSIVE LStrip(_)
LStrip(s) == IF s # <<>> /\ IsSpace(Head(s)) THEN LStrip(Tail(s)) ELSE s
RECURSIVE RStrip(_)
RStrip(s) ==
    IF s # <<>> /\ IsSpace(s[Len(s)]) THEN RStrip(SubSeq(s, 1, Len(s) - 1)) ELSE s
Strip(s) == RStrip(LStrip(s))

\* str.split(','): the pieces between commas, empty pieces included.
RECURSIVE SplitComma(_)
SplitComma(s) ==
    IF \A i \in 1..Len(s) : s[i] # ","
    THEN <<s>>
    ELSE LET k == CHOOSE i \in 1..Len(s) :
                      s[i] = "," /\ \A j \in 1..(i - 1) : s[j] # ","
         IN  <<SubSeq(s, 1, k - 1)>> \o SplitComma(SubSeq(s, k + 1, Len(s)))

\* sep.join(parts)
RECURSIVE Join(_, _)
Join(sep, parts) ==
    IF parts = <<>> THEN <<>>
    ELSE IF Len(parts) = 1 THEN parts[1]
    ELSE parts[1] \o sep \o Join(sep, Tail(parts))

NanText == <<"n", "a", "n">>

\* str(x) of a nullable text cell: a missing cell prints as 'nan'.
Str(x) == IF IsNull(x) THEN NanText ELSE x[1]

(* ------------------------ regular expressions -------------------------- *)

\* The characters re.escape puts a backslash before (those the model's
\* alphabets contain).
ReSpecialChars == {".", "|", " ", "\\"}

\* ReEscape that leaves every character as it is.
ReNoEscape(term) == term

\* re.escape(term)
RECURSIVE ReEscape(_)
ReEscape(term) ==
    IF term = <<>> THEN <<>>
    ELSE (IF Head(term) \in ReSpecialChars
          THEN <<"\\", Head(term)>> ELSE <<Head(term)>>) \o ReEscape(Tail(term))

\* The alternatives of a pattern: its pieces between unescaped '|'.
RECURSIVE ReAlternatives(_, _)
ReAlternatives(p, cur) ==
    IF p = <<>> THEN <<cur>>
    ELSE IF p[1] = "\\" /\ Len(p) >= 2
         THEN ReAlternatives(SubSeq(p, 3, Len(p)), cur \o <<p[1], p[2]>>)
    ELSE IF p[1] = "|"
         THEN <<cur>> \o ReAlternatives(Tail(p), <<>>)
    ELSE ReAlternatives(Tail(p), Append(cur, p[1]))

\* The atoms of one alternative: an escaped character is a literal, a bare
\* '.' matches any character, any other character is a literal.
RECURSIVE ReAtoms(_)
ReAtoms(p) ==
    IF p = <<>> THEN <<>>
    ELSE IF p[1] = "\\" /\ Len(p) >= 2
         THEN <<[any |-> FALSE, ch |-> p[2]]>> \o ReAtoms(SubSeq(p, 3, Len(p)))
    ELSE IF p[1] = "."
         THEN <<[any |-> TRUE, ch |-> "."]>> \o ReAtoms(Tail(p))
    ELSE <<[any |-> FALSE, ch |-> p[1]]>> \o ReAtoms(Tail(p))

ReMatchAt(atoms, text, pos) ==
    /\ pos + Len(atoms) - 1 <= Len(text)
    /\ \A k \in 1..Len(atoms) : atoms[k].any \/ atoms[k].ch = text[pos + k - 1]

\* re.search(pattern, text) is not None
ReSearch(pattern, text) ==
    LET alts == ReAlternatives(pattern, <<>>)
    IN  \E a \in 1..Len(alts) :
            \E pos \in 1..(Len(text) + 1) : ReMatchAt(ReAtoms(alts[a]), text, pos)

(* ----------------------------- the dataset ----------------------------- *)

\* The columns of the source file the model keeps.
CsvColumns ==
    {"date", "size_mean", "organizations", "state", "arrests",
     "participant_injuries", "police_injuries", "property_damage",
     "participant_deaths", "police_deaths", "location", "locality",
     "lat", "lon", "title"}

\* df['organizations'].astype(str).str.lower(): a missing cell becomes the
\* text 'nan', every other cell its lowercase text.
LoadOrganizations(cell) == Lower(Str(cell))

\* One row after the load-time conversions: organizations lowercased text,
\* participants_numeric a copy of size_mean.
LoadRow(raw) ==
    [c \in (DOMAIN raw) \cup {"participants_numeric"} |->
        CASE c = "participants_numeric" -> raw["size_mean"]
          [] c = "organizations"        -> LoadOrganizations(raw["organizations"])
          [] OTHER                      -> raw[c]]

\* A table: its column names, its row labels and its rows, in order.
Frame(columns, index, rows) == [columns |-> columns, index |-> index, rows |-> rows]

\* The module-level df after lines 18-36 have run on the parsed file.
LoadDataset(rawRows) ==
    Frame(IF rawRows = <<>> THEN CsvColumns \cup {"participants_numeric"}
          ELSE (DOMAIN rawRows[1]) \cup {"participants_numeric"},
          [i \in 1..Len(rawRows) |-> i - 1],
          [i \in 1..Len(rawRows) |-> LoadRow(rawRows[i])])

NRows(frame) == Len(frame.rows)

(* ---------------------------- filter_data ------------------------------ *)

\* Python truth of an optional date argument, and of an optional text or list.
TruthyDate(x) == NotNull(x)
TruthySeq(x) == NotNull(x) /\ x[1] # <<>>

\* dff['date'] >= start_date, dff['date'] <= end_date: a NaT compares False.
DateGe(cell, d) == NotNull(cell) /\ cell[1] >= d
\* DateLe with the end day left out.
DateLt(cell, d) == NotNull(cell) /\ cell[1] < d
DateLe(cell, d) == NotNull(cell) /\ cell[1] <= d

\* DateMask with the two bounds exchanged.
DateMaskSwapped(row, start_date, end_date) ==
    DateGe(row["date"], end_date[1]) /\ DateLe(row["date"], start_date[1])

\* (dff['date'] >= start_date) & (dff['date'] <= end_date)
DateMask(row, start_date, end_date) ==
    DateGe(row["date"], start_date[1]) /\ DateLe(row["date"], end_date[1])

\* The size-presence constraint of the if/elif on size_filter.
SizeMask(row, size_filter) ==
    IF size_filter = Some("has") THEN NotNull(row["size_mean"])
    ELSE IF size_filter = Some("no") THEN IsNull(row["size_mean"])
    ELSE TRUE

\* [o.strip().lower() for o in org_search.split(',') if o.strip()]
OrgTerms(org_search) ==
    LET pieces == SplitComma(org_search)
        kept == SelectSeq(pieces, LAMBDA o : Strip(o) # <<>>)
    IN  [i \in 1..Len(kept) |-> Lower(Strip(kept[i]))]

\* '|'.join([re.escape(org) for org in org_terms])
OrgPattern(org_terms) ==
    Join(<<"|">>, [i \in 1..Len(org_terms) |-> ReEscape(org_terms[i])])

\* dff['organizations'].str.contains(pattern, na=False, regex=True)
OrgMask(row, org_terms) == ReSearch(OrgPattern(org_terms), row["organizations"])

\* dff['state'].isin(state_filter)
StateMask(row, state_filter) ==
    \E k \in 1..Len(state_filter) : state_filter[k] = row["state"]

\* pd.to_numeric(col, errors='coerce').fillna(0)
FillZero(cell) == IF IsNull(cell) THEN 0 ELSE cell[1]

\* NumericOutcome that lets a zero count qualify.
NumericOutcomeGe(cell) == NotNull(cell) /\ FillZero(cell) >= 0

\* notna() & (to_numeric(...).fillna(0) > 0) on a numeric outcome column; the
\* column is numeric since load, so its text is never 'unspecified'.
NumericOutcome(cell) == NotNull(cell) /\ FillZero(cell) > 0

\* notna() & (astype(str).str.strip() != "") on property_damage
TextOutcome(cell) == NotNull(cell) /\ Strip(cell[1]) # <<>>

\* One pass of the loop over any_outcomes_filter: the branch of this flag.
OutcomeMask(row, outcome) ==
    CASE outcome = "arrests_any"              -> NumericOutcome(row["arrests"])
      [] outcome = "participant_injuries_any" -> NumericOutcome(row["participant_injuries"])
      [] outcome = "police_injuries_any"      -> NumericOutcome(row["police_injuries"])
      [] outcome = "property_damage_any"      -> TextOutcome(row["property_damage"])
      [] outcome = "participant_deaths_any"   -> NumericOutcome(row["participant_deaths"])
      [] outcome = "police_deaths_any"        -> NumericOutcome(row["police_deaths"])
      [] OTHER                                -> TRUE

\* for outcome in any_outcomes_filter: mask &= ...
RECURSIVE OutcomesLoop(_, _, _)
OutcomesLoop(frame, mask, outcomes) ==
    IF outcomes = <<>> THEN mask
    ELSE OutcomesLoop(frame,
                      [i \in DOMAIN mask |-> mask[i] /\ OutcomeMask(frame.rows[i], Head(outcomes))],
                      Tail(outcomes))

\* The mask of lines 522-537, before the outcomes loop.
BaseMask(frame, a) ==
    LET m0 == [i \in 1..NRows(frame) |-> TRUE]
        m1 == IF TruthyDate(a.start_date) /\ TruthyDate(a.end_date)
              THEN [i \in DOMAIN m0 |-> m0[i] /\ DateMask(frame.rows[i], a.start_date, a.end_date)]
              ELSE m0
        m2 == [i \in DOMAIN m1 |-> m1[i] /\ SizeMask(frame.rows[i], a.size_filter)]
        m3 == IF TruthySeq(a.org_search) /\ OrgTerms(a.org_search[1]) # <<>>
              THEN [i \in DOMAIN m2 |-> m2[i] /\ OrgMask(frame.rows[i], OrgTerms(a.org_search[1]))]
              ELSE m2
        m4 == IF TruthySeq(a.state_filter)
              THEN [i \in DOMAIN m3 |-> m3[i] /\ StateMask(frame.rows[i], a.state_filter[1])]
              ELSE m3
    IN  m4

\* Loc with the kept rows in the opposite order.
LocReversed(frame, mask) ==
    LET all == [i \in 1..NRows(frame) |-> i]
        pos == SelectSeq(all, LAMBDA i : mask[i])
        n == Len(pos)
    IN  Frame(frame.columns,
              [k \in 1..n |-> frame.index[pos[n + 1 - k]]],
              [k \in 1..n |-> frame.rows[pos[n + 1 - k]]])

\* dff.loc[mask]: a new table of the rows whose mask is True, in order.
Loc(frame, mask) ==
    LET all == [i \in 1..NRows(frame) |-> i]
        pos == SelectSeq(all, LAMBDA i : mask[i])
    IN  Frame(frame.columns,
              [k \in 1..Len(pos) |-> frame.index[pos[k]]],
              [k \in 1..Len(pos) |-> frame.rows[pos[k]]])

\* frame[col] = values: the column is added or overwritten, one value a row.
AssignColumn(frame, col, values) ==
    Frame(frame.columns \cup {col},
          frame.index,
          [k \in 1..NRows(frame) |->
              [c \in (DOMAIN frame.rows[k]) \cup {col} |->
                  IF c = col THEN values[k] ELSE frame.rows[k][c]]])

RequiredCols ==
    <<"lat", "lon", "date", "size_mean", "participants_numeric", "title", "organizations">>

\* A table variable of a handler refers either to the module-level df itself
\* or to a table of its own; env is the module-level df with that variable.
GlobalRef == [global |-> TRUE, frame |-> Frame({}, <<>>, <<>>)]
PrivateRef(frame) == [global |-> FALSE, frame |-> frame]
Env(d, ref) == [df |-> d, dff |-> ref]
Deref(env) == IF env.dff.global THEN env.df ELSE env.dff.frame

\* LocStep that leaves dff as it is when the mask keeps every row.
LocStepUnlessAll(env, mask) ==
    IF \A i \in DOMAIN mask : mask[i] THEN env
    ELSE [env EXCEPT !.dff = PrivateRef(Loc(Deref(env), mask))]

\* dff = dff.loc[mask]: dff now names the new table.
LocStep(env, mask) == [env EXCEPT !.dff = PrivateRef(Loc(Deref(env), mask))]

\* dff[col] = ...: written into the table dff names, df itself if dff is df.
AssignStep(env, col, values) ==
    IF env.dff.global
    THEN [env EXCEPT !.df = AssignColumn(env.df, col, values)]
    ELSE [env EXCEPT !.dff = PrivateRef(AssignColumn(env.dff.frame, col, values))]

\* dff = dff.copy()
CopyStep(env) == [env EXCEPT !.dff = PrivateRef(Deref(env))]

\* for col in required_cols: if col not in dff.columns: dff[col] = np.nan
RECURSIVE FillRequiredStep(_, _)
FillRequiredStep(env, cols) ==
    IF cols = <<>> THEN env
    ELSE FillRequiredStep(IF Head(cols) \in Deref(env).columns THEN env
                          ELSE AssignStep(env, Head(cols),
                                          [k \in 1..NRows(Deref(env)) |-> None]),
                          Tail(cols))

\* row.get(col, default)
Get(row, col, default) == IF col \in DOMAIN row THEN row[col] ELSE default

DigitChars == <<"0", "1", "2", "3", "4", "5", "6", "7", "8", "9">>

\* The text of row['date'].date(): an ISO calendar day.
DateText(d) == <<"2", "0", "2", "5", "-", "0", "1", "-", "0", DigitChars[d + 1]>>

UnknownText == <<"U", "n", "k", "n", "o", "w", "n">>

\* FilterBestLocation that tries the locality before the location.
FilterLocalityFirst(row) ==
    LET loc == Strip(Str(Get(row, "location", Some(<<>>))))
        loc2 == Strip(Str(Get(row, "locality", Some(<<>>))))
        state == Get(row, "state", UnknownText)
        date == IF NotNull(Get(row, "date", None)) THEN DateText(row["date"][1]) ELSE <<>>
    IN  IF loc2 # <<>> /\ Lower(loc2) # NanText THEN loc2
        ELSE IF loc # <<>> /\ Lower(loc) # NanText THEN loc
        ELSE state \o <<",", " ">> \o date

\* best_location of filter_data (lines 564-573).
FilterBestLocation(row) ==
    LET loc == Strip(Str(Get(row, "location", Some(<<>>))))
        loc2 == Strip(Str(Get(row, "locality", Some(<<>>))))
        state == Get(row, "state", UnknownText)
        date == IF NotNull(Get(row, "date", None)) THEN DateText(row["date"][1]) ELSE <<>>
    IN  IF loc # <<>> /\ Lower(loc) # NanText THEN loc
        ELSE IF loc2 # <<>> /\ Lower(loc2) # NanText THEN loc2
        ELSE state \o <<",", " ">> \o date

\* What a call returns: a table, or the exception it raised.
Returned(frame) == [raised |-> FALSE, frame |-> frame]
Raised == [raised |-> TRUE, frame |-> Frame({}, <<>>, <<>>)]

\* The mask of lines 522-552 for the arguments a on the table frame.
FilterMask(frame, a) == OutcomesLoop(frame, BaseMask(frame, a), a.any_outcomes_filter[1])

\* Lines 555-576 of filter_data, from the table dff names and the mask.
FilterFinish(env, mask) ==
    LET e1 == LocStep(env, mask)
        e2 == FillRequiredStep(e1, RequiredCols)
        e3 == CopyStep(e2)
    IN  AssignStep(e3, "location_label",
                   [k \in 1..NRows(Deref(e3)) |-> FilterBestLocation(Deref(e3).rows[k])])

\* The body of filter_data (lines 520-579) with the module-level df being d:
\* the df it leaves and what it returns.
FilterData(d, a) ==
    IF IsNull(a.any_outcomes_filter)
    THEN [df |-> d, ret |-> Raised]    \* for outcome in None: TypeError
    ELSE LET e0 == Env(d, GlobalRef)
             e4 == FilterFinish(e0, FilterMask(Deref(e0), a))
         IN  [df |-> e4.df, ret |-> Returned(Deref(e4))]

(* ---------------------- aggregate_events_for_map ----------------------- *)

\* best_location of aggregate_events_for_map (lines 586-595).
AggBestLocation(row) ==
    LET loc == Strip(Str(Get(row, "location", Some(UnknownText))))
        loc2 == Strip(Str(Get(row, "locality", Some(UnknownText))))
        state == Get(row, "state", UnknownText)
        date == IF NotNull(Get(row, "date", None)) THEN DateText(row["date"][1]) ELSE UnknownText
    IN  IF loc # <<>> /\ Lower(loc) # NanText THEN loc
        ELSE IF loc2 # <<>> /\ Lower(loc2) # NanText THEN loc2
        ELSE state \o <<",", " ">> \o date

\* Lines 598-599: the label column, an empty label replaced by 'Unknown'.
AggLabel(row) ==
    LET label == AggBestLocation(row)
    IN  IF label = <<>> THEN UnknownText ELSE label

\* df_map.dropna(subset=['lat', 'lon'])
DropNoCoords(frame) ==
    Loc(frame, [i \in 1..NRows(frame) |->
                   NotNull(frame.rows[i]["lat"]) /\ NotNull(frame.rows[i]["lon"])])

\* x.mean() if x.notna().any() else np.nan, kept as the sum and the count of
\* the sizes present.
RECURSIVE SumSizes(_)
SumSizes(rows) ==
    IF rows = <<>> THEN 0
    ELSE FillZero(Head(rows)["size_mean"]) + SumSizes(Tail(rows))

GroupSizeMean(rows) ==
    LET present == SelectSeq(rows, LAMBDA r : NotNull(r["size_mean"]))
    IN  IF present = <<>> THEN None
        ELSE Some([sum |-> SumSizes(present), n |-> Len(present)])

\* df_map.groupby('location_label').agg(...): one cluster per label, with the
\* first row's coordinates, the number of rows and the mean size.  (The hover
\* texts and titles of a cluster are not modelled; the clusters are kept as a
\* set.)
GroupByLabel(frame) ==
    {LET members == SelectSeq(frame.rows, LAMBDA r : r["location_label"] = label)
     IN  [location_label |-> label,
          lat |-> members[1]["lat"],
          lon |-> members[1]["lon"],
          count |-> Len(members),
          size_mean |-> GroupSizeMean(members)] :
     label \in {frame.rows[k]["location_label"] : k \in 1..NRows(frame)}}

\* The body of aggregate_events_for_map (lines 583-637) on the table dff_map,
\* which it copies first: the clusters it returns.
AggregateEventsForMap(dff_map) ==
    LET e0 == CopyStep(Env(dff_map, GlobalRef))
        e1 == AssignStep(e0, "location_label",
                         [k \in 1..NRows(Deref(e0)) |-> AggLabel(Deref(e0).rows[k])])
    IN  GroupByLabel(DropNoCoords(Deref(e1)))

(* ------------------------------ update_all ----------------------------- *)

\* lat or lon is no column of dff, or one of them is missing in every row.
NoValidLocation(frame) ==
    \/ "lat" \notin frame.columns
    \/ "lon" \notin frame.columns
    \/ \A k \in 1..NRows(frame) : IsNull(frame.rows[k]["lat"])
    \/ \A k \in 1..NRows(frame) : IsNull(frame.rows[k]["lon"])

\* What update_all hands to the map: the no-location message, or the clusters.
Output(no_data, aggregated, agg) ==
    [no_data |-> no_data, aggregated |-> aggregated, agg |-> agg]
NoOutput == Output(FALSE, FALSE, {})

\* update_all (lines 661-1004) with the module-level df being d: filter_data,
\* then the no-location return of lines 779-793 or aggregate_events_for_map.
UpdateAll(d, a) ==
    LET f == FilterData(d, a)
    IN  IF f.ret.raised THEN [df |-> f.df, ret |-> f.ret, out |-> NoOutput]
        ELSE IF NoValidLocation(f.ret.frame)
             THEN [df |-> f.df, ret |-> f.ret, out |-> Output(TRUE, FALSE, {})]
        ELSE [df |-> f.df, ret |-> f.ret,
              out |-> Output(FALSE, TRUE, AggregateEventsForMap(f.ret.frame))]

(* ------------------ update_all: metrics and time series ---------------- *)

US_POPULATION == 340100000

\* Python truth of a float: only zero is false, NaN is true.
TruthyFloat(x) == IsNull(x) \/ x[1] # 0

\* The rows of the table dated day d.
RowsOn(frame, d) == SelectSeq(frame.rows, LAMBDA r : r["date"] = Some(d))

\* The days some row of the table is dated; rows without a date have none.
DatedDays(frame) ==
    {frame.rows[k]["date"][1] : k \in {j \in 1..NRows(frame) : NotNull(frame.rows[j]["date"])}}

\* Series.max(): NaN for no value at all.
SeriesMax(values) ==
    IF values = {} THEN None
    ELSE Some(CHOOSE v \in values : \A w \in values : w <= v)

\* dff.groupby('date')['size_mean'].sum(): one sum per day that has a row,
\* missing sizes counting nothing, rows without a date in no group.
GroupByDateSum(frame) == {SumSizes(RowsOn(frame, d)) : d \in DatedDays(frame)}

\* dff['size_mean'].isnull().all()
AllSizesNull(frame) == \A k \in 1..NRows(frame) : IsNull(frame.rows[k]["size_mean"])

\* (peak_day / US_POPULATION) * 100 if peak_day else 0, as a fraction; NaN
\* divided stays NaN.
PercentUsPop(peak_day) ==
    IF TruthyFloat(peak_day)
    THEN IF IsNull(peak_day) THEN None
         ELSE Some([num |-> peak_day[1] * 100, den |-> US_POPULATION])
    ELSE Some([num |-> 0, den |-> 1])

\* Lines 673-684: the metrics of the filtered table.  (The mean size and the
\* share of rows without a size are left out.)
Metrics(dff) ==
    LET has == "size_mean" \in dff.columns
        peak_day == IF has THEN SeriesMax(GroupByDateSum(dff)) ELSE Some(0)
    IN  [total_events |-> NRows(dff),
         total_participants |-> IF has THEN SumSizes(dff.rows) ELSE 0,
         peak_day |-> peak_day,
         percent_us_pop |-> PercentUsPop(peak_day),
         largest_event |-> IF has /\ ~AllSizesNull(dff)
                           THEN SeriesMax({FillZero(dff.rows[k]["size_mean"]) :
                                             k \in {j \in 1..NRows(dff) :
                                                      NotNull(dff.rows[j]["size_mean"])}})
                           ELSE Some(0),
         largest_day |-> IF has /\ ~AllSizesNull(dff)
                         THEN SeriesMax(GroupByDateSum(dff)) ELSE Some(0)]

\* resample('D'): one bucket for every day from the first to the last day
\* some row is dated; no bucket when no row is dated.
ResampleDays(frame) ==
    LET days == DatedDays(frame)
    IN  IF days = {} THEN {}
        ELSE (CHOOSE d \in days : \A e \in days : d <= e)
             .. (CHOOSE d \in days : \A e \in days : e <= d)

\* dff[['date', 'participants_numeric']].dropna()
DropNoDateOrSize(frame) ==
    Loc(frame, [i \in 1..NRows(frame) |->
                   NotNull(frame.rows[i]["date"])
                   /\ NotNull(frame.rows[i]["participants_numeric"])])

RollingWindow == 7

\* Lines 858-863: the momentum table, a row per day of the rows that have a
\* date and a size: their sum, their number, the product of the two and the
\* sum of the last RollingWindow sums (NaN while there are fewer).
MomentumTable(dff) ==
    LET m == DropNoDateOrSize(dff)
        first == CHOOSE d \in ResampleDays(m) : \A e \in ResampleDays(m) : d <= e
    IN  [d \in ResampleDays(m) |->
            [sum |-> SumSizes(RowsOn(m, d)),
             count |-> Len(RowsOn(m, d)),
             momentum |-> SumSizes(RowsOn(m, d)) * Len(RowsOn(m, d)),
             alt_momentum |-> IF d - first + 1 >= RollingWindow
                              THEN Some(SumSizes(SelectSeq(m.rows,
                                     LAMBDA r : r["date"][1] \in (d - RollingWindow + 1)..d)))
                              ELSE None]]

\* dff.set_index('date').resample('D').size(): the number of rows of each day.
DailyCounts(dff) == [d \in ResampleDays(dff) |-> Len(RowsOn(dff, d))]

\* dff_cum['count'].cumsum()
RECURSIVE CumSum(_, _)
CumSum(counts, d) ==
    IF d \notin DOMAIN counts THEN 0 ELSE counts[d] + CumSum(counts, d - 1)

CumulativeCounts(dff) ==
    [d \in ResampleDays(dff) |-> CumSum(DailyCounts(dff), d)]

\* dff.set_index('date').resample('D')['size_mean'].sum(): the sum of the
\* sizes present on each day, which is 0 for a sum of nothing.
DailyParticipants(dff) == [d \in ResampleDays(dff) |-> SumSizes(RowsOn(dff, d))]

\* 'date' not in dff.columns or dff['date'].isnull().all()
NoDates(dff) ==
    \/ "date" \notin dff.columns
    \/ \A k \in 1..NRows(dff) : IsNull(dff.rows[k]["date"])

\* A figure is None when it is the empty go.Figure(), else Some(series).
EmptyFigure == None
FigureOf(series) == Some(series)

NoLocationMessage == "No events with valid location data for the selected filters."

\* The sum of the values of a function with a finite domain.
RECURSIVE SumFcn(_)
SumFcn(f) ==
    IF DOMAIN f = {} THEN 0
    ELSE LET d == CHOOSE e \in DOMAIN f : TRUE
         IN  f[d] + SumFcn([e \in DOMAIN f \ {d} |-> f[e]])

\* np.polyfit(x, y, 1) followed by np.polyval at the same x: the least-squares
\* line through the points (d, y[d]), as the fraction num/den at each day.
\* The days are distinct, so den > 0 for more than one day.
PolyFitLine(y) ==
    LET n == Cardinality(DOMAIN y)
        sx == SumFcn([d \in DOMAIN y |-> d])
        sy == SumFcn(y)
        sxy == SumFcn([d \in DOMAIN y |-> d * y[d]])
        sxx == SumFcn([d \in DOMAIN y |-> d * d])
        den == n * sxx - sx * sx
    IN  [d \in DOMAIN y |->
            [num |-> (n * sxy - sx * sy) * d + (sy * sxx - sx * sxy), den |-> den]]

\* dropna(subset=['momentum']): the days of the momentum table whose momentum
\* is a number (sum * count of a resampled day always is).
DropNaMomentum(table) ==
    [d \in {e \in DOMAIN table : table[e].momentum \in Int} |-> table[d]]

\* Lines 878-894: the trend-line trace of the momentum figure, None when it
\* is not added: the table and then its days with a momentum need more than
\* one row each.
TrendLine(table) ==
    IF Cardinality(DOMAIN table) > 1
    THEN LET trend_df == DropNaMomentum(table)
         IN  IF Cardinality(DOMAIN trend_df) > 1
             THEN Some(PolyFitLine([d \in DOMAIN trend_df |-> trend_df[d].momentum]))
             ELSE None
    ELSE None

\* What update_all returns to the page.  raised: an exception left it instead.
View(raised, metrics, message, momentum, trend, daily, cumulative, participants, largest_event_kpi, largest_day_kpi) ==
    [raised |-> raised, metrics |-> metrics, message |-> message,
     momentum |-> momentum, trend |-> trend, daily |-> daily, cumulative |-> cumulative,
     participants |-> participants,
     largest_event_kpi |-> largest_event_kpi, largest_day_kpi |-> largest_day_kpi]

\* What the page shows while no update_all has returned.
NoView ==
    View(FALSE, Metrics(Frame({}, <<>>, <<>>)), None,
         EmptyFigure, None, EmptyFigure, EmptyFigure, EmptyFigure, None, None)

\* An exception left update_all: the page gets nothing.
RaisedView == [NoView EXCEPT !.raised = TRUE]

\* aggregate_events_for_map is called on a table in which no row has both
\* coordinates: after line 612 it groups and decorates an empty table, which
\* raises at line 625 or not, as the installed pandas has it.
GroupsNothing(dff) ==
    /\ ~NoValidLocation(dff)
    /\ \A k \in 1..NRows(dff) : IsNull(dff.rows[k]["lat"]) \/ IsNull(dff.rows[k]["lon"])

\* Lines 672-1004 of update_all on the table filter_data returned; raises
\* tells whether aggregate_events_for_map raised.
UpdateView(dff, raises) ==
    IF NoValidLocation(dff)
    THEN View(FALSE, Metrics(dff), Some(NoLocationMessage),
              EmptyFigure, None, EmptyFigure, EmptyFigure, EmptyFigure, None, None)
    ELSE IF raises THEN RaisedView
    ELSE View(FALSE, Metrics(dff), None,
              FigureOf(MomentumTable(dff)),
              TrendLine(MomentumTable(dff)),
              IF NoDates(dff) \/ DailyCounts(dff) = <<>>
              THEN EmptyFigure ELSE FigureOf(DailyCounts(dff)),
              IF NoDates(dff) \/ DailyCounts(dff) = <<>>
              THEN EmptyFigure ELSE FigureOf(CumulativeCounts(dff)),
              IF NoDates(dff) \/ DailyParticipants(dff) = <<>>
              THEN EmptyFigure ELSE FigureOf(DailyParticipants(dff)),
              Some(Metrics(dff).largest_event), Some(Metrics(dff).largest_day))

(* ------------------------------ inputs --------------------------------- *)

Dates == 1..MaxDate
OptDates == {None} \cup {Some(d) : d \in Dates}

CA == <<"C", "A">>
NY == <<"N", "Y">>

\* A row of the source file whose every field passes every filter.
BaseRaw ==
    [date |-> Some(2), size_mean |-> Some(100), organizations |-> Some(<<"A", "b">>),
     state |-> CA, arrests |-> Some(2), participant_injuries |-> Some(1),
     police_injuries |-> Some(1), property_damage |-> Some(<<"x">>),
     participant_deaths |-> Some(1), police_deaths |-> Some(1),
     location |-> Some(<<"x">>), locality |-> None,
     lat |-> Some(1), lon |-> Some(1), title |-> Some(<<"t">>)]

\* Rows differing from BaseRaw in the date, the size, the organizations, the
\* state or the arrests.
MainRawRows ==
    {[BaseRaw EXCEPT !["date"] = d] : d \in OptDates}
    \cup {[BaseRaw EXCEPT !["size_mean"] = None],
          [BaseRaw EXCEPT !["organizations"] = None],
          [BaseRaw EXCEPT !["state"] = NY],
          [BaseRaw EXCEPT !["arrests"] = None]}

\* All sequences of 1..n rows drawn from the set rows.
RECURSIVE RowSeqs(_, _)
RowSeqs(rows, n) ==
    IF n = 0 THEN {<<>>}
    ELSE LET shorter == RowSeqs(rows, n - 1)
         IN  shorter \cup {Append(q, r) : q \in shorter, r \in rows}

SourceFiles(rows) == RowSeqs(rows, MaxRows) \ {<<>>}

\* The filter specification that constrains nothing.
NoConstraint ==
    [start_date |-> None, end_date |-> None, size_filter |-> Some("all"),
     org_search |-> None, state_filter |-> Some(<<>>),
     any_outcomes_filter |-> Some(<<>>)]

SizeModes == {None, Some("all"), Some("has"), Some("no")}

\* Filter specifications that vary one kind of constraint, and those that
\* switch each kind on or off together with the others.
MainArgs ==
    {[NoConstraint EXCEPT !.start_date = s, !.end_date = e] : s \in OptDates, e \in OptDates}
    \cup {[NoConstraint EXCEPT !.size_filter = z] : z \in SizeModes}
    \cup {[NoConstraint EXCEPT !.org_search = o] :
            o \in {None, Some(<<>>), Some(<<",", " ">>), Some(<<"b">>), Some(<<"B", ",", "x">>)}}
    \cup {[NoConstraint EXCEPT !.state_filter = t] :
            t \in {None, Some(<<>>), Some(<<NY>>), Some(<<NY, CA>>)}}
    \cup {[NoConstraint EXCEPT !.any_outcomes_filter = f] :
            f \in {None, Some(<<>>), Some(<<"arrests_any">>),
                   Some(<<"arrests_any", "property_damage_any">>)}}
    \cup [start_date : {None, Some(1)}, end_date : {None, Some(2)},
          size_filter : {Some("all"), Some("has")},
          org_search : {None, Some(<<"b">>)},
          state_filter : {Some(<<>>), Some(<<CA>>)},
          any_outcomes_filter : {Some(<<>>), Some(<<"arrests_any">>)}]

(* --------------------------- request handling -------------------------- *)

NoRequest == [op |-> "none", args |-> NoConstraint]
NoReturn == Returned(Frame({}, <<>>, <<>>))

\* A caller hands a filter specification to filter_data.
RequestFilter(argset) ==
    /\ pc = "idle"
    /\ \E a \in argset : req' = [op |-> "filter_data", args |-> a]
    /\ pc' = "called"
    /\ UNCHANGED <<csv, df, ret, out, work, cache, now, view>>

\* filter_data runs on the request's arguments.
CallFilterData ==
    /\ pc = "called"
    /\ req.op = "filter_data"
    /\ LET f == FilterData(df, req.args)
       IN  /\ df' = f.df
           /\ ret' = f.ret
    /\ pc' = "returned"
    /\ UNCHANGED <<csv, req, out, work, cache, now, view>>

\* The response is delivered; the process waits for the next request.
Respond ==
    /\ pc = "returned"
    /\ pc' = "idle"
    /\ req' = NoRequest
    /\ ret' = NoReturn
    /\ out' = NoOutput
    /\ view' = NoView
    /\ UNCHANGED <<csv, df, work, cache, now>>

\* The worker threads of the server.
Workers == {"w1", "w2"}

\* What a worker holds of the request it serves: the handler and its
\* arguments, the line it has reached, the table its variable names, the mask
\* and what it has produced.
IdleWork ==
    [op |-> "none", args |-> NoConstraint, n_clicks |-> None, choice |-> "filtered",
     step |-> "idle", dff |-> GlobalRef, mask |-> <<>>, raised |-> FALSE,
     out |-> NoOutput]

\* The result cache with nothing stored.
EmptyCache == [filter_data |-> {}, aggregate_events_for_map |-> {}]

\* The process has started: the source file is loaded, no request is served.
InitWith(files) ==
    /\ csv \in files
    /\ df = LoadDataset(csv)
    /\ pc = "idle"
    /\ req = NoRequest
    /\ ret = NoReturn
    /\ out = NoOutput
    /\ work = [w \in Workers |-> IdleWork]
    /\ cache = EmptyCache
    /\ now = 0
    /\ view = NoView

Init == InitWith(SourceFiles(MainRawRows))

RequestMain == RequestFilter(MainArgs)

Next == RequestMain \/ CallFilterData \/ Respond

Spec == Init /\ [][Next]_vars

\* The dashboard's callback passes the filter widgets' values to update_all.
RequestUpdate(argset) ==
    /\ pc = "idle"
    /\ \E a \in argset : req' = [op |-> "update_all", args |-> a]
    /\ pc' = "called"
    /\ UNCHANGED <<csv, df, ret, out, work, cache, now, view>>

\* update_all runs on the request's arguments.
CallUpdateAll ==
    /\ pc = "called"
    /\ req.op = "update_all"
    /\ \E u \in {UpdateAll(df, req.args)} :
          /\ df' = u.df
          /\ ret' = u.ret
          /\ out' = u.out
          /\ \E raises \in IF ~u.ret.raised /\ GroupsNothing(u.ret.frame)
                            THEN BOOLEAN ELSE {FALSE} :
                view' = IF u.ret.raised THEN RaisedView
                        ELSE UpdateView(u.ret.frame, raises)
    /\ pc' = "returned"
    /\ UNCHANGED <<csv, req, work, cache, now>>

(* ---------------- outcome flags: inputs and specification -------------- *)

OutcomeFlags ==
    {"arrests_any", "participant_injuries_any", "police_injuries_any",
     "property_damage_any", "participant_deaths_any", "police_deaths_any"}

\* Rows differing from BaseRaw in one outcome field: missing, zero or blank.
OutcomeRawRows ==
    {BaseRaw}
    \cup {[BaseRaw EXCEPT ![c] = v] :
            c \in {"arrests", "participant_injuries", "police_injuries",
                   "participant_deaths", "police_deaths"},
            v \in {None, Some(0)}}
    \cup {[BaseRaw EXCEPT !["property_damage"] = v] : v \in {None, Some(<<" ">>)}}

\* Selections of no, one or two distinct outcome flags, in either order.
OutcomeArgs ==
    {[NoConstraint EXCEPT !.any_outcomes_filter = Some(sel)] :
        sel \in {<<>>} \cup {<<f>> : f \in OutcomeFlags}
                \cup {p \in OutcomeFlags \X OutcomeFlags : p[1] # p[2]}}

InitOutcomes == InitWith(SourceFiles(OutcomeRawRows))

RequestOutcomes == RequestFilter(OutcomeArgs)

NextOutcomes == RequestOutcomes \/ CallFilterData \/ Respond

SpecOutcomes == InitOutcomes /\ [][NextOutcomes]_vars

(* ------------- organization search: inputs and specification ----------- *)

OrgAlphabet == {"a", "B", "."}
SearchAlphabet == {"a", "B", ",", " ", "."}

\* One-row source files whose organizations cell is missing or any text.
OrgSourceFiles ==
    {<<[BaseRaw EXCEPT !["organizations"] = o]>> :
        o \in {None} \cup {Some(t) : t \in TextsUpTo(OrgAlphabet, MaxOrgLen)}}

\* Every search text, and no search text, with nothing else constrained.
OrgArgs ==
    {[NoConstraint EXCEPT !.org_search = o] :
        o \in {None} \cup {Some(t) : t \in TextsUpTo(SearchAlphabet, MaxSearchLen)}}

InitOrg == InitWith(OrgSourceFiles)

RequestOrg == RequestFilter(OrgArgs)

NextOrg == RequestOrg \/ CallFilterData \/ Respond

SpecOrg == InitOrg /\ [][NextOrg]_vars

(* ----------------------------- jitter_coords ---------------------------- *)

\* Coordinates and distances are whole numbers of 0.00001 degree.
\* The least radius of a displacement, 0.0005 degree.
MinRadius == 50

\* The default jitter_amount, 0.05 degree.
JitterAmount == 5000

\* random.uniform(0, 2 * np.pi) as the point (cos, sin) of the angle, in
\* DirScale-ths: some of the angles whose cosine and sine are fractions.
DirScale == 5
Directions == {<<5, 0>>, <<0, 5>>, <<-5, 0>>, <<3, 4>>, <<-4, -3>>}

\* random.uniform(a, b) = a + (b - a) * random(): a value between the two
\* arguments, whichever is the larger; the model draws the two ends.
Uniform(a, b) == {a, b}

\* What the two random calls of one displaced row can return.
Draws(jitter_amount) ==
    [dir : Directions, radius : Uniform(MinRadius, jitter_amount)]

Digit(k) == <<"0", "1", "2", "3", "4", "5", "6", "7", "8", "9">>[k + 1]

\* The decimal text of a whole number.
RECURSIVE DecimalText(_)
DecimalText(n) ==
    IF n < 0 THEN <<"-">> \o DecimalText(0 - n)
    ELSE IF n < 10 THEN <<Digit(n)>>
    ELSE DecimalText(n \div 10) \o <<Digit(n % 10)>>

\* astype(str) of a numeric cell: NaN prints as 'nan'.
NumStr(x) == IF IsNull(x) THEN NanText ELSE DecimalText(x[1])

\* df.reset_index(drop=True): the rows are labelled 0, 1, ... in their order.
ResetIndex(frame) ==
    Frame(frame.columns, [i \in 1..NRows(frame) |-> i - 1], frame.rows)

\* Line 490: the text lat_lon of every row.
CoordKeys(frame, lat_col, lon_col) ==
    [i \in 1..NRows(frame) |->
        Join(<<"_">>, <<NumStr(frame.rows[i][lat_col]), NumStr(frame.rows[i][lon_col])>>)]

\* Lines 491-497: the rows that are displaced, those with an earlier row of
\* the same text (offset > 0 in a text that occurs more than once).
JitterTargets(coords) ==
    {i \in DOMAIN coords : \E j \in 1..(i - 1) : coords[j] = coords[i]}

\* x += delta on a numeric cell: NaN stays NaN.
AddNum(x, delta) == IF IsNull(x) THEN None ELSE Some(x[1] + delta)

\* Lines 489-502 on the table the caller passes, with the values the random
\* calls return for each displaced row.
JitterCoords(frame, lat_col, lon_col, draws) ==
    LET copy == ResetIndex(frame)
        targets == JitterTargets(CoordKeys(copy, lat_col, lon_col))
    IN  Frame(copy.columns, copy.index,
              [i \in 1..NRows(copy) |->
                  IF i \in targets
                  THEN [copy.rows[i] EXCEPT
                          ![lat_col] = AddNum(@, (draws[i].dir[1] * draws[i].radius) \div DirScale),
                          ![lon_col] = AddNum(@, (draws[i].dir[2] * draws[i].radius) \div DirScale)]
                  ELSE copy.rows[i]])

JitterRows == 3

\* Rows with each coordinate missing or set, two longitudes.
JitterRawRows ==
    {[BaseRaw EXCEPT !["lat"] = a, !["lon"] = o] :
        a \in {None, Some(1)}, o \in {None, Some(1), Some(2)}}

JitterSourceFiles == RowSeqs(JitterRawRows, JitterRows) \ {<<>>}

\* The default jitter_amount and one below the least radius.
JitterAmounts == {JitterAmount, MinRadius \div DirScale}

InitJitter == InitWith(JitterSourceFiles)

\* A caller hands the table and a jitter_amount to jitter_coords.
RequestJitter ==
    /\ pc = "idle"
    /\ \E a \in JitterAmounts :
          req' = [op |-> "jitter_coords", args |-> [jitter_amount |-> a]]
    /\ pc' = "called"
    /\ UNCHANGED <<csv, df, ret, out, work, cache, now, view>>

\* jitter_coords runs on the table: it copies it (line 489), then displaces
\* the rows of the copy and returns the copy.
CallJitterCoords ==
    /\ pc = "called"
    /\ req.op = "jitter_coords"
    /\ \E env \in {CopyStep(Env(df, GlobalRef))} :
          \E draws \in [JitterTargets(CoordKeys(Deref(env), "lat", "lon")) -> Draws(req.args.jitter_amount)] :
              /\ df' = env.df
              /\ ret' = Returned(JitterCoords(Deref(env), "lat", "lon", draws))
    /\ pc' = "returned"
    /\ UNCHANGED <<csv, req, out, work, cache, now, view>>

NextJitter == RequestJitter \/ CallJitterCoords \/ Respond

SpecJitter == InitJitter /\ [][NextJitter]_vars

(* --------------- location labels: inputs and specification ------------- *)

LocAlphabet == {" ", "N", "a", "n"}

\* One-row source files: any location text or none, a locality that is
\* missing, blank, padded or the null marker, a date or none.
LocSourceFiles ==
    {<<[BaseRaw EXCEPT !["location"] = l, !["locality"] = c, !["date"] = d]>> :
        l \in {None} \cup {Some(t) : t \in TextsUpTo(LocAlphabet, MaxLocLen)},
        c \in {None, Some(<<" ">>), Some(<<" ", "y">>), Some(<<"n", "A", "n">>)},
        d \in {None, Some(1)}}

InitLoc == InitWith(LocSourceFiles)

RequestLoc == RequestUpdate({NoConstraint})

NextLoc == RequestLoc \/ CallUpdateAll \/ Respond

SpecLoc == InitLoc /\ [][NextLoc]_vars

(* ------------- metrics and time series: inputs and specification ------ *)

\* Events in one state and place that differ in the date, the size and the
\* coordinates they have: both, the latitude only or the longitude only.
ViewRawRows ==
    {[BaseRaw EXCEPT !["date"] = d, !["size_mean"] = z, !["lat"] = c[1], !["lon"] = c[2]] :
        d \in OptDates, z \in {None, Some(100)},
        c \in {<<Some(1), Some(1)>>, <<Some(1), None>>, <<None, Some(1)>>}}

\* No constraint, and a state no event is in: the filtered set is empty.
ViewArgs == {NoConstraint, [NoConstraint EXCEPT !.state_filter = Some(<<NY>>)]}

InitView == InitWith(SourceFiles(ViewRawRows))

RequestView == RequestUpdate(ViewArgs)

NextView == RequestView \/ CallUpdateAll \/ Respond

SpecView == InitView /\ [][NextView]_vars

(* -------------- concurrent requests: the handlers line by line --------- *)

\* The source file without its title column.
WithoutTitle(rows) ==
    [i \in 1..Len(rows) |-> [c \in (DOMAIN rows[i]) \ {"title"} |-> rows[i][c]]]

ConcSourceFiles ==
    {<<BaseRaw, [BaseRaw EXCEPT !["size_mean"] = None]>>,
     WithoutTitle(<<BaseRaw, [BaseRaw EXCEPT !["size_mean"] = None]>>),
     <<[BaseRaw EXCEPT !["lat"] = None]>>}

ConcArgs ==
    {NoConstraint,
     [NoConstraint EXCEPT !.size_filter = Some("has")],
     [NoConstraint EXCEPT !.any_outcomes_filter = None]}

\* The worker's table variable with the module-level df, and back.
WorkEnv(w) == Env(df, work[w].dff)
Advance(w, env, step) ==
    /\ df' = env.df
    /\ work' = [work EXCEPT ![w].dff = env.dff, ![w].step = step]
    /\ UNCHANGED <<csv, pc, req, ret, out, cache, now, view>>

\* A request reaches a free worker: a filter_data call, the update_all
\* callback or the download_csv callback.
Accept(w) ==
    /\ work[w].step = "idle"
    /\ \E op \in {"filter_data", "update_all", "download_csv"}, a \in ConcArgs,
          n \in {None, Some(1)}, ch \in {"filtered", "full"} :
          /\ op # "download_csv" => (n = None /\ ch = "filtered")
          /\ work' = [work EXCEPT ![w] = [IdleWork EXCEPT !.op = op, !.args = a,
                                             !.n_clicks = n, !.choice = ch,
                                             !.step = "entered"]]
    /\ UNCHANGED <<csv, df, pc, req, ret, out, cache, now, view>>

\* download_csv, lines 1117-1121: nothing to do without a click; the full
\* dataset is exported from a copy of df.
DownloadEnter(w) ==
    /\ work[w].step = "entered"
    /\ work[w].op = "download_csv"
    /\ \/ IsNull(work[w].n_clicks) /\ Advance(w, WorkEnv(w), "done")
       \/ /\ NotNull(work[w].n_clicks)
          /\ work[w].choice = "full"
          /\ Advance(w, CopyStep(Env(df, GlobalRef)), "exported")

\* filter_data, lines 520-552: dff names df, the mask is computed from it.
FilterEnter(w) ==
    /\ work[w].step = "entered"
    /\ \/ work[w].op \in {"filter_data", "update_all"}
       \/ work[w].op = "download_csv" /\ NotNull(work[w].n_clicks) /\ work[w].choice = "filtered"
    /\ IF IsNull(work[w].args.any_outcomes_filter)
       THEN work' = [work EXCEPT ![w].raised = TRUE, ![w].step = "done"]
       ELSE work' = [work EXCEPT ![w].dff = GlobalRef,
                                 ![w].mask = FilterMask(df, work[w].args),
                                 ![w].step = "masked"]
    /\ UNCHANGED <<csv, df, pc, req, ret, out, cache, now, view>>

\* filter_data, line 555
FilterLoc(w) ==
    /\ work[w].step = "masked"
    /\ Advance(w, LocStep(WorkEnv(w), work[w].mask), "selected")

\* filter_data, lines 558-561
FilterFill(w) ==
    /\ work[w].step = "selected"
    /\ Advance(w, FillRequiredStep(WorkEnv(w), RequiredCols), "filled")

\* filter_data, line 575
FilterCopy(w) ==
    /\ work[w].step = "filled"
    /\ Advance(w, CopyStep(WorkEnv(w)), "copied")

\* filter_data, lines 576-579: the label column is written and dff returned
\* to the handler that called.
FilterLabel(w) ==
    /\ work[w].step = "copied"
    /\ LET e == WorkEnv(w)
           labels == [k \in 1..NRows(Deref(e)) |-> FilterBestLocation(Deref(e).rows[k])]
       IN  Advance(w, AssignStep(e, "location_label", labels),
                   CASE work[w].op = "filter_data" -> "done"
                     [] work[w].op = "update_all" -> "filtered"
                     [] OTHER -> "exported")

\* update_all, lines 779-795: the no-location return, or the map clusters.
UpdateMap(w) ==
    /\ work[w].step = "filtered"
    /\ LET dff == Deref(WorkEnv(w))
       IN  work' = [work EXCEPT ![w].step = "done",
                                ![w].out = IF NoValidLocation(dff)
                                           THEN Output(TRUE, FALSE, {})
                                           ELSE Output(FALSE, TRUE, AggregateEventsForMap(dff))]
    /\ UNCHANGED <<csv, df, pc, req, ret, out, cache, now, view>>

\* export_df.drop(columns=[col]): a new table without the column.
DropColumn(frame, col) ==
    Frame(frame.columns \ {col},
          frame.index,
          [k \in 1..NRows(frame) |->
              [c \in (DOMAIN frame.rows[k]) \ {col} |-> frame.rows[k][c]]])

\* download_csv, lines 1127-1130: the fallback column is left out of the
\* export, which is then written out.
DownloadSend(w) ==
    /\ work[w].step = "exported"
    /\ LET e == WorkEnv(w)
       IN  Advance(w,
                   IF "fallback" \in Deref(e).columns
                   THEN [e EXCEPT !.dff = PrivateRef(DropColumn(Deref(e), "fallback"))]
                   ELSE e,
                   "done")

\* The response is sent and the worker is free again.
Finish(w) ==
    /\ work[w].step = "done"
    /\ work' = [work EXCEPT ![w] = IdleWork]
    /\ UNCHANGED <<csv, df, pc, req, ret, out, cache, now, view>>

InitConc == InitWith(ConcSourceFiles)

NextConc ==
    \E w \in Workers :
        \/ Accept(w)
        \/ DownloadEnter(w)
        \/ FilterEnter(w)
        \/ FilterLoc(w)
        \/ FilterFill(w)
        \/ FilterCopy(w)
        \/ FilterLabel(w)
        \/ UpdateMap(w)
        \/ DownloadSend(w)
        \/ Finish(w)

SpecConc == InitConc /\ [][NextConc]_vars

(* ------------------ the result cache around the two functions --------- *)

\* @cache.memoize(timeout=120)
CacheTimeout == 120

\* The rows a DataFrame prints: a table of more than DisplayMaxRows rows
\* prints DisplayMinRows of them, half from the top and half from the bottom.
DisplayMaxRows == 60
DisplayMinRows == 10

\* The text of a DataFrame, which is what the cache key of
\* aggregate_events_for_map is made from: the column names, the printed rows
\* with their index labels and, when rows are left out, the shape.
FrameRepr(frame) ==
    LET n == NRows(frame)
        half == DisplayMinRows \div 2
        shown == IF n > DisplayMaxRows
                 THEN [k \in 1..(2 * half) |-> IF k <= half THEN k ELSE n - 2 * half + k]
                 ELSE [k \in 1..n |-> k]
    IN  [columns |-> frame.columns,
         index |-> [k \in 1..Len(shown) |-> frame.index[shown[k]]],
         rows |-> [k \in 1..Len(shown) |-> frame.rows[shown[k]]],
         footer |-> IF n > DisplayMaxRows
                    THEN Some(<<n, Cardinality(frame.columns)>>) ELSE None]

\* The cache keys: the function with the text of its arguments.  The text of
\* the filter arguments (dates, texts and lists of texts) tells them apart.
FilterKey(a) == a
AggregateKey(dff_map) == FrameRepr(dff_map)

\* cache.get: the entries stored under the key that have not run out at time t.
CacheGet(store, key, t) == {e \in store : e.key = key /\ e.expires >= t}

\* cache.set at time t: the value replaces what was stored under the key.
CacheSet(store, key, value, t) ==
    {e \in store : e.key # key}
    \cup {[key |-> key, value |-> value, expires |-> t + CacheTimeout]}

\* The memoized filter_data at time t: the stored value when there is one,
\* else the body's, which is stored unless the body raised.
MemoFilterData(c, t, d, a) ==
    LET hit == CacheGet(c.filter_data, FilterKey(a), t)
        f == FilterData(d, a)
    IN  IF hit # {}
        THEN [cache |-> c, df |-> d, ret |-> (CHOOSE e \in hit : TRUE).value]
        ELSE IF f.ret.raised
        THEN [cache |-> c, df |-> f.df, ret |-> f.ret]
        ELSE [cache |-> [c EXCEPT !.filter_data = CacheSet(@, FilterKey(a), f.ret, t)],
              df |-> f.df, ret |-> f.ret]

\* The memoized aggregate_events_for_map at time t.
MemoAggregate(c, t, dff_map) ==
    LET key == AggregateKey(dff_map)
        hit == CacheGet(c.aggregate_events_for_map, key, t)
        agg == AggregateEventsForMap(dff_map)
    IN  IF hit # {}
        THEN [cache |-> c, agg |-> (CHOOSE e \in hit : TRUE).value]
        ELSE [cache |-> [c EXCEPT !.aggregate_events_for_map = CacheSet(@, key, agg, t)],
              agg |-> agg]

\* A source file of CacheRows events: all alike but one without a size and
\* one in another state and place, both away from the top and the bottom.
CacheSourceFiles ==
    {[i \in 1..CacheRows |->
        IF i = DisplayMinRows + 1 THEN [BaseRaw EXCEPT !["size_mean"] = None]
        ELSE IF i = DisplayMinRows + 2
        THEN [BaseRaw EXCEPT !["state"] = NY, !["location"] = Some(<<"y">>)]
        ELSE BaseRaw]}

CacheArgs ==
    {[NoConstraint EXCEPT !.size_filter = Some("has")],
     [NoConstraint EXCEPT !.state_filter = Some(<<CA>>)],
     [NoConstraint EXCEPT !.any_outcomes_filter = None]}

\* filter_data is called through the cache, by a caller of its own or by
\* update_all (lines 666-669), which goes on to the map unless the call raised.
CallMemoFilterData ==
    /\ pc = "called"
    /\ LET f == MemoFilterData(cache, now, df, req.args)
       IN  /\ df' = f.df
           /\ ret' = f.ret
           /\ cache' = f.cache
           /\ pc' = IF req.op = "update_all" /\ ~f.ret.raised
                    THEN "filtered" ELSE "returned"
           /\ view' = IF req.op = "update_all" /\ f.ret.raised
                      THEN RaisedView ELSE view
    /\ UNCHANGED <<csv, req, out, work, now>>

\* update_all, lines 779-795, on the table filter_data returned: the
\* no-location return, or aggregate_events_for_map called through the cache.
CallMemoAggregate ==
    /\ pc = "filtered"
    /\ IF NoValidLocation(ret.frame)
       THEN /\ out' = Output(TRUE, FALSE, {})
            /\ cache' = cache
       ELSE LET m == MemoAggregate(cache, now, ret.frame)
            IN  /\ out' = Output(FALSE, TRUE, m.agg)
                /\ cache' = m.cache
    /\ \E raises \in IF GroupsNothing(ret.frame) THEN BOOLEAN ELSE {FALSE} :
          view' = UpdateView(ret.frame, raises)
    /\ pc' = "returned"
    /\ UNCHANGED <<csv, df, req, ret, work, now>>

\* Time passes between two requests.
Tick ==
    /\ pc = "idle"
    /\ \E d \in {60, 61} : now + d <= MaxClock /\ now' = now + d
    /\ UNCHANGED <<csv, df, pc, req, ret, out, work, cache, view>>

InitCache == InitWith(CacheSourceFiles)

RequestCacheFilter == RequestFilter(CacheArgs)
RequestCacheUpdate == RequestUpdate(CacheArgs)

NextCache ==
    \/ RequestCacheFilter
    \/ RequestCacheUpdate
    \/ CallMemoFilterData
    \/ CallMemoAggregate
    \/ Tick
    \/ Respond

SpecCache == InitCache /\ [][NextCache]_vars

(* ------------------------- what the claims say ------------------------- *)

\* t occurs in s as a contiguous run of characters.
IsSubstring(t, s) ==
    \E i \in 0..(Len(s) - Len(t)) : SubSeq(s, i + 1, i + Len(t)) = t

\* The non-empty search terms of a search text: its comma-separated pieces,
\* trimmed and lowercased.
SearchTerms(search) ==
    LET pieces == SplitComma(search)
    IN  {Lower(Strip(pieces[i])) : i \in 1..Len(pieces)} \ {<<>>}

\* The field of the record that an outcome flag asks about qualifies.
FlagQualifies(row, flag) ==
    LET numeric(c) == NotNull(row[c]) /\ row[c][1] > 0
    IN  CASE flag = "arrests_any"              -> numeric("arrests")
          [] flag = "participant_injuries_any" -> numeric("participant_injuries")
          [] flag = "police_injuries_any"      -> numeric("police_injuries")
          [] flag = "participant_deaths_any"   -> numeric("participant_deaths")
          [] flag = "police_deaths_any"        -> numeric("police_deaths")
          [] flag = "property_damage_any"      ->
                NotNull(row["property_damage"])
                /\ \E i \in 1..Len(row["property_damage"][1]) :
                       ~IsSpace(row["property_damage"][1][i])

DateActive(a) == NotNull(a.start_date) /\ NotNull(a.end_date)
InDateRange(row, a) ==
    NotNull(row["date"]) /\ a.start_date[1] <= row["date"][1] /\ row["date"][1] <= a.end_date[1]
OrgActive(a) == NotNull(a.org_search) /\ SearchTerms(a.org_search[1]) # {}
StateActive(a) == NotNull(a.state_filter) /\ a.state_filter[1] # <<>>
Flags(a) == {a.any_outcomes_filter[1][i] : i \in 1..Len(a.any_outcomes_filter[1])}

\* The record satisfies every active constraint of the filter specification.
Satisfies(row, a) ==
    /\ DateActive(a) => InDateRange(row, a)
    /\ a.size_filter = Some("has") => NotNull(row["size_mean"])
    /\ a.size_filter = Some("no") => IsNull(row["size_mean"])
    /\ OrgActive(a) => \E t \in SearchTerms(a.org_search[1]) : IsSubstring(t, row["organizations"])
    /\ StateActive(a) => \E k \in 1..Len(a.state_filter[1]) : a.state_filter[1][k] = row["state"]
    /\ \A f \in Flags(a) : FlagQualifies(row, f)

\* A filter_data call on a specification whose outcome selection is a list
\* has returned.
FilterReturned ==
    pc = "returned" /\ req.op = "filter_data" /\ NotNull(req.args.any_outcomes_filter)

Labels(frame) == {frame.index[k] : k \in 1..NRows(frame)}

\* The position in df of the row with this label.
PosOf(label) == CHOOSE i \in 1..NRows(df) : df.index[i] = label

\* The output rows are rows of df, in df's order, none twice, each with the
\* values it has in df.
StableSubset(frame) ==
    /\ \A k \in 1..NRows(frame) : frame.index[k] \in Labels(df)
    /\ \A k \in 1..(NRows(frame) - 1) : PosOf(frame.index[k]) < PosOf(frame.index[k + 1])
    /\ \A k \in 1..NRows(frame) :
          \A c \in df.columns : frame.rows[k][c] = df.rows[PosOf(frame.index[k])][c]

\* C1: filter_data returns exactly the rows of the dataset that satisfy every
\* active constraint, in the dataset's order, none duplicated; with no
\* constraint active the output is the whole dataset row for row.
C1_ExactStableFilter ==
    FilterReturned =>
        /\ ~ret.raised
        /\ StableSubset(ret.frame)
        /\ Labels(ret.frame) = {df.index[i] : i \in {j \in 1..NRows(df) : Satisfies(df.rows[j], req.args)}}
        /\ (~DateActive(req.args) /\ req.args.size_filter \notin {Some("has"), Some("no")}
            /\ ~OrgActive(req.args) /\ ~StateActive(req.args) /\ Flags(req.args) = {})
           => ret.frame.index = df.index

\* Reached: of two rows the filter kept the second and dropped the first.
C1_Witness ==
    /\ FilterReturned
    /\ NRows(df) = 2
    /\ ret.frame.index = <<df.index[2]>>

\* The specifications obtained from a by adding one constraint.
Narrowings(a) ==
    {[a EXCEPT !.start_date = Some(s), !.end_date = Some(e)] :
        s \in {x \in Dates : DateActive(a) /\ a.start_date[1] <= x},
        e \in {x \in Dates : DateActive(a) /\ x <= a.end_date[1]}}
    \cup {[a EXCEPT !.start_date = s] : s \in {Some(x) : x \in {y \in Dates : IsNull(a.start_date)}}}
    \cup {[a EXCEPT !.end_date = e] : e \in {Some(x) : x \in {y \in Dates : IsNull(a.end_date)}}}
    \cup {[a EXCEPT !.size_filter = z] : z \in {y \in {Some("has"), Some("no")} : a.size_filter = Some("all")}}
    \cup {[a EXCEPT !.org_search = o] :
            o \in {y \in {Some(<<"b">>), Some(<<"n">>), Some(<<"x", ",", "a">>)} : ~OrgActive(a)}}
    \cup {[a EXCEPT !.state_filter = t] :
            t \in {y \in {Some(<<CA>>), Some(<<NY>>), Some(<<CA, NY>>)} : ~StateActive(a)}}
    \cup {[a EXCEPT !.state_filter = Some(SubSeq(a.state_filter[1], 1, k - 1)
                                          \o SubSeq(a.state_filter[1], k + 1, Len(a.state_filter[1])))] :
            k \in {j \in 1..(IF StateActive(a) THEN Len(a.state_filter[1]) ELSE 0) :
                      Len(a.state_filter[1]) >= 2}}
    \cup {[a EXCEPT !.any_outcomes_filter = Some(Append(a.any_outcomes_filter[1], f))] :
            f \in {"arrests_any", "participant_injuries_any", "police_injuries_any",
                   "property_damage_any", "participant_deaths_any", "police_deaths_any"}
                  \ Flags(a)}

\* C2: adding one constraint to the specification never adds a row: the rows
\* of the narrowed filter are among the rows of the filter.
C2_Monotone ==
    FilterReturned =>
        \A n \in Narrowings(req.args) :
            LET narrowed == FilterData(df, n).ret.frame
            IN  /\ Labels(narrowed) \subseteq Labels(ret.frame)
                /\ NRows(narrowed) <= NRows(ret.frame)

\* Reached: a narrowed date range drops a row that the wider range keeps.
C2_Witness ==
    /\ FilterReturned
    /\ DateActive(req.args)
    /\ \E n \in Narrowings(req.args) :
          /\ DateActive(n)
          /\ NRows(FilterData(df, n).ret.frame) < NRows(ret.frame)

\* C3: with both bounds present a row is kept only if its date is present and
\* start <= date <= end, both ends included (and a row in the range is kept
\* when nothing else constrains); with a bound absent the output is that of
\* the same specification with both bounds absent.
C3_DateRange ==
    FilterReturned =>
        /\ DateActive(req.args) =>
              /\ \A k \in 1..NRows(ret.frame) : InDateRange(ret.frame.rows[k], req.args)
              /\ req.args = [NoConstraint EXCEPT !.start_date = req.args.start_date,
                                                 !.end_date = req.args.end_date]
                 => \A i \in 1..NRows(df) :
                        InDateRange(df.rows[i], req.args) => df.index[i] \in Labels(ret.frame)
        /\ ~DateActive(req.args) =>
              ret = FilterData(df, [req.args EXCEPT !.start_date = None, !.end_date = None]).ret

\* Reached: a row dated on the end bound is kept and an undated row dropped.
C3_Witness ==
    /\ FilterReturned
    /\ DateActive(req.args)
    /\ NRows(df) = 2
    /\ NRows(ret.frame) = 1
    /\ ret.frame.rows[1]["date"] = req.args.end_date
    /\ \E i \in 1..2 : IsNull(df.rows[i]["date"])

\* Reached: only one bound is given and a row outside it is kept.
C3_WitnessOneBound ==
    /\ FilterReturned
    /\ NotNull(req.args.start_date) /\ IsNull(req.args.end_date)
    /\ \E k \in 1..NRows(ret.frame) :
          NotNull(ret.frame.rows[k]["date"]) /\ ret.frame.rows[k]["date"][1] < req.args.start_date[1]

\* C6 (as claimed): a call with null or empty fields completes without raising.
C6_NullTolerant ==
    (pc = "returned" /\ req.op = "filter_data") => ~ret.raised

\* The selection of outcome flags in the opposite order.
Reverse(q) == [i \in 1..Len(q) |-> q[Len(q) + 1 - i]]

\* C5: selected outcome flags are intersected: a row is kept only if the
\* field of every selected flag qualifies (and is kept if they all do and
\* nothing else constrains); if some selected flag's field is null, zero or
\* blank in every row the output is empty; the order of the flags is
\* immaterial.
C5_OutcomesIntersect ==
    FilterReturned =>
        LET fs == Flags(req.args)
        IN  /\ \A k \in 1..NRows(ret.frame) : \A f \in fs : FlagQualifies(ret.frame.rows[k], f)
            /\ req.args = [NoConstraint EXCEPT !.any_outcomes_filter = req.args.any_outcomes_filter]
               => \A i \in 1..NRows(df) :
                      (\A f \in fs : FlagQualifies(df.rows[i], f)) => df.index[i] \in Labels(ret.frame)
            /\ (\E f \in fs : \A i \in 1..NRows(df) : ~FlagQualifies(df.rows[i], f))
               => NRows(ret.frame) = 0
            /\ ret = FilterData(df, [req.args EXCEPT !.any_outcomes_filter =
                                        Some(Reverse(req.args.any_outcomes_filter[1]))]).ret

\* Reached: two flags are selected; one row qualifies for both and is kept,
\* the other qualifies for the first flag only and is dropped.
C5_Witness ==
    /\ FilterReturned
    /\ Len(req.args.any_outcomes_filter[1]) = 2
    /\ NRows(df) = 2
    /\ NRows(ret.frame) = 1
    /\ \E i \in 1..2 :
          /\ df.index[i] \notin Labels(ret.frame)
          /\ FlagQualifies(df.rows[i], req.args.any_outcomes_filter[1][1])
          /\ ~FlagQualifies(df.rows[i], req.args.any_outcomes_filter[1][2])

\* C4: the search text is split on commas, each term trimmed and lowercased,
\* empty terms dropped; with a term left a row is kept iff its organizations
\* text contains some term literally, whatever the case of the text in the
\* source file; with no term left nothing is constrained.
C4_OrgSearch ==
    FilterReturned =>
        LET terms == IF IsNull(req.args.org_search) THEN {} ELSE SearchTerms(req.args.org_search[1])
            kept(i) == df.index[i] \in Labels(ret.frame)
        IN  IF terms = {}
            THEN ret.frame.index = df.index
            ELSE \A i \in 1..NRows(df) :
                    /\ kept(i) <=> \E t \in terms : IsSubstring(t, df.rows[i]["organizations"])
                    /\ NotNull(csv[i]["organizations"]) =>
                          (kept(i) <=> \E t \in terms :
                                          IsSubstring(t, Lower(csv[i]["organizations"][1])))

\* Reached: a term holding '.' and a capital matches a record whose source
\* text holds the same in capitals, and the record is kept.
C4_Witness ==
    /\ FilterReturned
    /\ NotNull(req.args.org_search)
    /\ req.args.org_search[1] = <<" ", "B", ".">>
    /\ csv[1]["organizations"] = Some(<<"B", ".">>)
    /\ NRows(ret.frame) = 1

\* update_all has returned the map clusters of a filtered set.
MapReturned == pc = "returned" /\ req.op = "update_all" /\ out.aggregated

\* C9 (as claimed): the label filter_data stores on a row is the label under
\* which aggregate_events_for_map groups it, so a cluster's label selects, in
\* the filtered rows, as many located rows as the cluster counts.
C9_SameLabel ==
    MapReturned =>
        \A c \in out.agg :
            Cardinality({k \in 1..NRows(ret.frame) :
                            /\ ret.frame.rows[k]["location_label"] = c.location_label
                            /\ NotNull(ret.frame.rows[k]["lat"])
                            /\ NotNull(ret.frame.rows[k]["lon"])}) = c.count

\* The text x without its leading and trailing spaces, said without strip().
Trimmed(x) ==
    CHOOSE t \in {SubSeq(x, i, j) : i \in 1..(Len(x) + 1), j \in 0..Len(x)} :
        /\ t = <<>> \/ (~IsSpace(t[1]) /\ ~IsSpace(t[Len(t)]))
        /\ \E i \in 0..Len(x) :
              /\ i + Len(t) <= Len(x)
              /\ SubSeq(x, i + 1, i + Len(t)) = t
              /\ \A j \in (1..i) \cup ((i + Len(t) + 1)..Len(x)) : IsSpace(x[j])

\* A location or locality cell that is present, not blank and not the null
\* marker 'nan' in any case.
Usable(cell) ==
    /\ NotNull(cell)
    /\ Trimmed(cell[1]) # <<>>
    /\ Lower(Trimmed(cell[1])) # <<"n", "a", "n">>

\* C10: the label of a record is its trimmed location when the location is
\* usable, else its trimmed locality when the locality is usable, else its
\* state, a comma and a space, and its calendar date (or, with no date, a
\* placeholder that is no date).
C10_Precedence ==
    (pc = "returned" /\ ~ret.raised) =>
        \A k \in 1..NRows(ret.frame) :
            LET row == ret.frame.rows[k]
                head == row["state"] \o <<",", " ">>
                label == row["location_label"]
            IN  IF Usable(row["location"]) THEN label = Trimmed(row["location"][1])
                ELSE IF Usable(row["locality"]) THEN label = Trimmed(row["locality"][1])
                ELSE IF NotNull(row["date"]) THEN label = head \o DateText(row["date"][1])
                ELSE /\ SubSeq(label, 1, Len(head)) = head
                     /\ \A d \in Dates : SubSeq(label, Len(head) + 1, Len(label)) # DateText(d)

\* Reached: the location is the null marker in capitals, the locality is
\* padded, and the label is the locality without its padding.
C10_Witness ==
    /\ pc = "returned" /\ ~ret.raised
    /\ NRows(ret.frame) = 1
    /\ ret.frame.rows[1]["location"] = Some(<<"N", "a", "N">>)
    /\ ret.frame.rows[1]["locality"] = Some(<<" ", "y">>)
    /\ ret.frame.rows[1]["location_label"] = <<"y">>

\* C7: the module-level dataset stays what the load made of the source file:
\* the same rows in the same order, the same columns, the same values,
\* whatever requests run and however their steps interleave.
C7_DatasetReadOnly == df = LoadDataset(csv)

\* Reached: one worker holds the labelled result of filter_data, which had to
\* add the missing title column to its table, while the other is between the
\* mask and the selection of a filter_data call of its own.
C7_Witness ==
    /\ "title" \notin df.columns
    /\ work["w1"].step = "done"
    /\ work["w1"].op = "filter_data"
    /\ ~work["w1"].raised
    /\ {"title", "location_label"} \subseteq work["w1"].dff.frame.columns
    /\ work["w2"].step = "masked"

\* C8 (as claimed): whatever the cache holds and however much time has passed, a call
\* through the cache returns what the function's body returns on the same
\* arguments: filter_data its table, and aggregate_events_for_map, called by
\* update_all on that table, its clusters.
C8_CacheTransparent ==
    pc = "returned" =>
        /\ ret = FilterData(df, req.args).ret
        /\ out.aggregated => out.agg = AggregateEventsForMap(ret.frame)

\* The rows of a table that have both coordinates.
Located(frame) ==
    SelectSeq(frame.rows, LAMBDA r : NotNull(r["lat"]) /\ NotNull(r["lon"]))

RECURSIVE SumCounts(_)
SumCounts(clusters) ==
    IF clusters = {} THEN 0
    ELSE LET c == CHOOSE x \in clusters : TRUE
         IN  c.count + SumCounts(clusters \ {c})

\* C11 (as claimed): the clusters partition the located rows of the filtered
\* set by their location_label: cluster keys are pairwise distinct, every
\* located row's label is the key of a cluster, a cluster counts exactly the
\* located rows that carry its key (so rows without a coordinate are in none),
\* and the counts add up to the number of located rows.
C11_Partition ==
    MapReturned =>
        /\ \A c1, c2 \in out.agg : c1.location_label = c2.location_label => c1 = c2
        /\ \A k \in 1..Len(Located(ret.frame)) :
              \E c \in out.agg : c.location_label = Located(ret.frame)[k]["location_label"]
        /\ \A c \in out.agg :
              c.count = Len(SelectSeq(Located(ret.frame),
                                      LAMBDA r : r["location_label"] = c.location_label))
        /\ SumCounts(out.agg) = Len(Located(ret.frame))

\* update_all has returned to the page, filter_data not having raised.
UpdateReturned == pc = "returned" /\ req.op = "update_all" /\ ~ret.raised

\* The table with a coordinate put wherever one is missing.
WithCoordinates(frame) ==
    Frame(frame.columns, frame.index,
          [k \in 1..NRows(frame) |->
              [frame.rows[k] EXCEPT !["lat"] = IF IsNull(@) THEN Some(1) ELSE @,
                                    !["lon"] = IF IsNull(@) THEN Some(1) ELSE @]])

\* C12 (as claimed): the metrics and the momentum, daily, cumulative and
\* participant series update_all returns are those it would return if every
\* row of the filtered set had coordinates.
C12_SeriesIgnoreCoordinates ==
    UpdateReturned =>
        LET w == UpdateView(WithCoordinates(ret.frame), FALSE)
        IN  /\ ~view.raised
            /\ view.metrics = w.metrics
            /\ view.momentum = w.momentum
            /\ view.daily = w.daily
            /\ view.cumulative = w.cumulative
            /\ view.participants = w.participants
            /\ view.largest_event_kpi = w.largest_event_kpi
            /\ view.largest_day_kpi = w.largest_day_kpi

\* C13 (as claimed): when no row of the filtered set has both coordinates,
\* update_all returns the no-location result and aggregate_events_for_map is
\* not called.
C13_NoLocationShortCircuit ==
    (UpdateReturned /\ Located(ret.frame) = <<>>) =>
        /\ out.no_data
        /\ ~out.aggregated
        /\ view.message = Some(NoLocationMessage)

\* The table with its rows taken away.
WithoutRows(frame) == Loc(frame, [i \in 1..NRows(frame) |-> FALSE])

\* C14 (as claimed): what update_all says of a filtered set that has rows but
\* none with both coordinates differs from what it says of a filtered set
\* with no rows.
C14_NoLocationNotNoRows ==
    (UpdateReturned /\ NRows(ret.frame) > 0 /\ Located(ret.frame) = <<>>) =>
        view.message # UpdateView(WithoutRows(ret.frame), FALSE).message

\* The rows of day d that have a size.
SizedOn(frame, d) == SelectSeq(RowsOn(frame, d), LAMBDA r : NotNull(r["size_mean"]))

\* C15 (as claimed): on every day of the momentum series the momentum is the
\* sum of the sizes of the filtered events of that day times the number of
\* filtered events of that day, with or without a size.
C15_Momentum ==
    (UpdateReturned /\ NotNull(view.momentum)) =>
        \A d \in DOMAIN view.momentum[1] :
            view.momentum[1][d].momentum =
                SumSizes(RowsOn(ret.frame, d)) * Len(RowsOn(ret.frame, d))

\* C16 (as claimed): when some filtered row has a date, the momentum, daily,
\* cumulative and participant series all run over the days from the earliest
\* to the latest date of the filtered rows.
C16_SameDateAxis ==
    (UpdateReturned /\ DatedDays(ret.frame) # {}) =>
        \A fig \in {view.momentum, view.daily, view.cumulative, view.participants} :
            NotNull(fig) /\ DOMAIN fig[1] = ResampleDays(ret.frame)

\* C17 (as claimed): when some filtered row has a date, the daily series has
\* a bucket for every day from the earliest to the latest date, holding the
\* number of rows of that day (0 for none); the cumulative series holds the
\* sum of the daily counts up to each day, never decreases and ends at the
\* number of dated rows.
C17_DenseDailyAndCumulative ==
    (UpdateReturned /\ DatedDays(ret.frame) # {}) =>
        /\ NotNull(view.daily) /\ NotNull(view.cumulative)
        /\ DOMAIN view.daily[1] = ResampleDays(ret.frame)
        /\ DOMAIN view.cumulative[1] = ResampleDays(ret.frame)
        /\ \A d \in ResampleDays(ret.frame) :
              /\ view.daily[1][d] = Len(RowsOn(ret.frame, d))
              /\ view.cumulative[1][d] =
                    Len(SelectSeq(ret.frame.rows,
                                  LAMBDA r : NotNull(r["date"]) /\ r["date"][1] <= d))
              /\ (d + 1) \in ResampleDays(ret.frame) =>
                    view.cumulative[1][d] <= view.cumulative[1][d + 1]

\* C18 (as claimed): on every day of the participant series the value is the
\* sum of the sizes present that day, and is null when the day has no event
\* with a size.
C18_DailyParticipants ==
    (UpdateReturned /\ NotNull(view.participants)) =>
        \A d \in DOMAIN view.participants[1] :
            Some(view.participants[1][d]) =
                IF SizedOn(ret.frame, d) = <<>> THEN None
                ELSE Some(SumSizes(SizedOn(ret.frame, d)))

\* C19 (as claimed): the largest-day metric is the peak-day value the
\* percentage is made from, and the largest value of the participant series
\* when there is one.
C19_LargestDay ==
    UpdateReturned =>
        /\ view.metrics.largest_day = view.metrics.peak_day
        /\ NotNull(view.participants) =>
              view.metrics.largest_day =
                  SeriesMax({view.participants[1][d] : d \in DOMAIN view.participants[1]})

\* C20 (as claimed): the percentage is 100 * peak / US_POPULATION when the
\* largest sum of a day is defined and positive, and 0 when it is zero or
\* undefined; it is never NaN.
C20_PercentOfPopulation ==
    UpdateReturned =>
        LET peak == SeriesMax(GroupByDateSum(ret.frame))
        IN  view.metrics.percent_us_pop =
                IF NotNull(peak) /\ peak[1] > 0
                THEN Some([num |-> 100 * peak[1], den |-> US_POPULATION])
                ELSE Some([num |-> 0, den |-> 1])

\* The days that have a momentum value for a row set: the days from the first
\* to the last day on which a row has a date and a size.
MomentumDays(frame) == ResampleDays(DropNoDateOrSize(frame))

\* C21: whenever the filtered rows give fewer than 2 days a momentum value,
\* update_all does not raise and returns the momentum figure without a
\* trend-line trace; a trend line, when there is one, covers exactly the days
\* that have a momentum value, and there are at least 2 of them.
C21_TrendOmission ==
    (pc = "returned" /\ req.op = "update_all" /\ ~ret.raised) =>
        /\ Cardinality(MomentumDays(ret.frame)) < 2 =>
              /\ ~view.raised
              /\ NotNull(view.momentum)
              /\ IsNull(view.trend)
        /\ NotNull(view.trend) =>
              /\ Cardinality(MomentumDays(ret.frame)) >= 2
              /\ DOMAIN view.trend[1] = MomentumDays(ret.frame)

\* C23: an organization search with at least one non-empty term never keeps
\* a record whose organizations cell is missing in the source file.
C23_MissingOrganizationsNotKept ==
    (FilterReturned /\ OrgActive(req.args)) =>
        \A i \in 1..NRows(df) :
            IsNull(csv[i]["organizations"]) => df.index[i] \notin Labels(ret.frame)

JitterReturned == pc = "returned" /\ req.op = "jitter_coords"

\* The square of the distance between the coordinates of two rows, both of
\* which have both coordinates.
Distance2(r, q) ==
    (r["lat"][1] - q["lat"][1]) * (r["lat"][1] - q["lat"][1])
        + (r["lon"][1] - q["lon"][1]) * (r["lon"][1] - q["lon"][1])

\* C22: jitter_coords returns as many rows in the same order; a row whose
\* (lat, lon) pair no earlier row has keeps its coordinates; a row whose pair
\* an earlier row has is displaced by a distance between 0.0005 and
\* jitter_amount (a row of such a group with a coordinate missing may also
\* be left as it is); and the table passed in is not modified.
C22_Jitter ==
    JitterReturned =>
        LET old == LoadDataset(csv).rows
            new == ret.frame.rows
            pair(r) == <<r["lat"], r["lon"]>>
            present(r) == NotNull(r["lat"]) /\ NotNull(r["lon"])
            kept(i) == pair(new[i]) = pair(old[i])
            displaced(i) ==
                /\ present(new[i])
                /\ present(old[i])
                /\ Distance2(new[i], old[i]) >= MinRadius * MinRadius
                /\ Distance2(new[i], old[i]) <= req.args.jitter_amount * req.args.jitter_amount
        IN  /\ Len(new) = Len(old)
            /\ \A i \in 1..Len(old) :
                  /\ \A c \in DOMAIN old[i] \ {"lat", "lon"} : new[i][c] = old[i][c]
                  /\ IF \A j \in 1..(i - 1) : pair(old[j]) # pair(old[i])
                     THEN kept(i)
                     ELSE IF present(old[i]) THEN displaced(i)
                     ELSE kept(i) \/ displaced(i)
            /\ df = LoadDataset(csv)
====
